---- MODULE Spec2Model ----
(***************************************************************************)
(* Model of src/main.ts: a terminal agent that sends a transcript to a     *)
(* completion endpoint, parses the reply for a <tool_call> block, runs the *)
(* named filesystem tool and feeds the result back.                        *)
(*                                                                         *)
(* Text is modelled as a sequence of characters (one-character strings);   *)
(* a message body is a sequence of tokens, so that the parser's search for *)
(* the delimiters and the JSON decoding of what lies between them are      *)
(* computed, not assumed.                                                  *)
(***************************************************************************)
EXTENDS Integers, Sequences, FiniteSets, TLC

(* ------------------------------ bounds -------------------------------- *)
MaxContent == 2
MaxOld == 2
MaxNew == 2
MaxMsgs == 6

(* The characters of file contents, old_str and new_str: a literal, the    *)
(* regular-expression end anchor (also the escape of a replacement string) *)
(* and an opening parenthesis (alone it makes a pattern invalid).          *)
Alphabet == {"a", "$", "("}

Str(n) == UNION {[1..k -> Alphabet] : k \in 0..n}

None == <<>>
Some(x) == <<x>>

(* --------------------------- the filesystem --------------------------- *)
(* Relative paths are sequences of names; <<>> is the empty string "".     *)
Paths == {<<"d">>, <<"d", "f">>, <<"g">>}

NoNode == [kind |-> "none", content |-> <<>>]
DirNode == [kind |-> "dir", content |-> <<>>]
FileNode(c) == [kind |-> "file", content |-> c]

Ancestors(p) == {SubSeq(p, 1, k) : k \in 1..(Len(p) - 1)}
Descendants(p) == {q \in Paths : Len(q) > Len(p) /\ SubSeq(q, 1, Len(p)) = p}
Children(p) == {q \in Paths : Len(q) = Len(p) + 1 /\ SubSeq(q, 1, Len(p)) = p}

WellFormed(f) ==
    \A p \in Paths : f[p].kind # "none" => \A a \in Ancestors(p) : f[a].kind = "dir"

(* What resolving path p yields: the kind of the node, or the error code   *)
(* of the lookup.                                                          *)
Lookup(f, p) ==
    IF p = <<>> THEN "ENOENT"
    ELSE IF \E a \in Ancestors(p) : f[a].kind = "file" THEN "ENOTDIR"
    ELSE IF \E a \in Ancestors(p) : f[a].kind = "none" THEN "ENOENT"
    ELSE IF f[p].kind = "none" THEN "ENOENT"
    ELSE f[p].kind

(* fs.readFile(path, "utf-8"), path a string *)
ReadFile(f, p) ==
    LET r == Lookup(f, p)
    IN  IF r = "file" THEN [ok |-> TRUE, content |-> f[p].content, code |-> ""]
        ELSE IF r = "dir" THEN [ok |-> FALSE, content |-> <<>>, code |-> "EISDIR"]
        ELSE [ok |-> FALSE, content |-> <<>>, code |-> r]

(* fs.writeFile(path, data): creates or truncates the file; the parent     *)
(* directory must exist.                                                   *)
WriteFile(f, p, data) ==
    LET r == Lookup(f, p)
    IN  IF p # <<>> /\ r = "file" THEN [ok |-> TRUE, fs |-> [f EXCEPT ![p] = FileNode(data)], code |-> ""]
        ELSE IF p # <<>> /\ r = "ENOENT" /\ \A a \in Ancestors(p) : f[a].kind = "dir"
             THEN [ok |-> TRUE, fs |-> [f EXCEPT ![p] = FileNode(data)], code |-> ""]
        ELSE IF r = "dir" THEN [ok |-> FALSE, fs |-> f, code |-> "EISDIR"]
        ELSE [ok |-> FALSE, fs |-> f, code |-> r]

(* path.dirname(p); the result <<>> stands for "." *)
Dirname(p) == IF Len(p) <= 1 THEN <<>> ELSE SubSeq(p, 1, Len(p) - 1)

(* fs.mkdir(dir) without {recursive: true}: fails when dir exists (as "."  *)
(* does) or when its parent is missing                                     *)
MkdirRecursive_Plain(f, dir) ==
    IF dir = <<>> \/ f[dir].kind # "none" THEN [ok |-> FALSE, fs |-> f, code |-> "EEXIST"]
    ELSE IF \E a \in Ancestors(dir) : f[a].kind # "dir" THEN [ok |-> FALSE, fs |-> f, code |-> "ENOENT"]
    ELSE [ok |-> TRUE, fs |-> [f EXCEPT ![dir] = DirNode], code |-> ""]

(* fs.mkdir(dir, {recursive: true}): creates dir and its missing ancestors *)
MkdirRecursive(f, dir) ==
    LET chain == Ancestors(dir) \cup (IF dir = <<>> THEN {} ELSE {dir})
    IN  IF \E a \in chain : f[a].kind = "file"
        THEN [ok |-> FALSE, fs |-> f, code |-> "EEXIST"]
        ELSE [ok |-> TRUE, fs |-> [q \in Paths |-> IF q \in chain THEN DirNode ELSE f[q]], code |-> ""]

(* fs.rm(path, {recursive: true, force: true}) *)
Rm(f, p) ==
    LET r == Lookup(f, p)
    IN  IF r = "ENOENT" THEN [ok |-> TRUE, fs |-> f, code |-> ""]
        ELSE IF r = "ENOTDIR" THEN [ok |-> FALSE, fs |-> f, code |-> "ENOTDIR"]
        ELSE [ok |-> TRUE,
              fs |-> [q \in Paths |-> IF q = p \/ q \in Descendants(p) THEN NoNode ELSE f[q]],
              code |-> ""]

(* ------------------------------ strings ------------------------------- *)
(* String.prototype.includes: old occurs in c as a literal substring *)
Includes(c, old) ==
    \E i \in 0..(Len(c) - Len(old)) : SubSeq(c, i + 1, i + Len(old)) = old

(* new RegExp(old_str, "g") throws a SyntaxError on an unterminated group *)
ValidPattern(pat) == \A k \in 1..Len(pat) : pat[k] # "("

(* One attempt of the pattern at 0-based position pos of c, from atom k:   *)
(* "$" asserts the end of the input, "." takes any character, any other    *)
(* character takes itself.                                                 *)
RECURSIVE MatchFrom(_, _, _, _)
MatchFrom(c, pat, k, pos) ==
    IF k > Len(pat) THEN TRUE
    ELSE IF pat[k] = "$" THEN pos = Len(c) /\ MatchFrom(c, pat, k + 1, pos)
    ELSE /\ pos < Len(c)
         /\ (pat[k] = "." \/ c[pos + 1] = pat[k])
         /\ MatchFrom(c, pat, k + 1, pos + 1)

(* the number of characters a match of pat takes *)
MatchLen(pat) == Cardinality({k \in 1..Len(pat) : pat[k] # "$"})

(* GetSubstitution: "$$" in the replacement stands for one "$" *)
RECURSIVE Expand(_, _)
Expand(new, i) ==
    IF i > Len(new) THEN <<>>
    ELSE IF new[i] = "$" /\ i < Len(new) /\ new[i + 1] = "$"
         THEN <<"$">> \o Expand(new, i + 2)
    ELSE <<new[i]>> \o Expand(new, i + 1)

(* content.replace(new RegExp(pat, "g"), new): every match from the left,  *)
(* the search resuming after a match (one further after an empty match).   *)
RECURSIVE RegExpReplace(_, _, _, _, _)
RegExpReplace(c, pat, new, search, emitted) ==
    LET hits == {i \in search..Len(c) : MatchFrom(c, pat, 1, i)}
    IN  IF hits = {} THEN SubSeq(c, emitted + 1, Len(c))
        ELSE LET i == CHOOSE h \in hits : \A g \in hits : h <= g
                 n == MatchLen(pat)
             IN  SubSeq(c, emitted + 1, i) \o Expand(new, 1)
                     \o RegExpReplace(c, pat, new, IF n = 0 THEN i + 1 ELSE i + n, i + n)

(* ------------------------- message text, JSON ------------------------- *)
(* A decoded JSON value: t is "null", "false", "zero", "num" (a non-zero   *)
(* number) or "obj"; of an object only the fields the program reads are    *)
(* kept: name, and input with its path, old_str and new_str.               *)
InputVal(t, path, old, new) == [t |-> t, path |-> path, old_str |-> old, new_str |-> new]
NoInput == InputVal("undefined", None, <<>>, <<>>)
JValue(t, name, input) == [t |-> t, name |-> name, input |-> input]
JNull == JValue("null", None, NoInput)
NoJson == JValue("none", None, NoInput)

(* A token of a message body: a piece of fixed text k, with the characters *)
(* s or the JSON text j it carries.                                        *)
T(k) == [k |-> k, s |-> <<>>, j |-> NoJson]
TS(k, s) == [k |-> k, s |-> s, j |-> NoJson]
TJ(j) == [k |-> "json", s |-> <<>>, j |-> j]
OpenTag == T("<tool_call>")
CloseTag == T("</tool_call>")

(* ------------------------------ the tools ----------------------------- *)
Out(result, f) == [result |-> result, fs |-> f]

(* a parameter that destructures its argument throws on undefined and null *)
Destructurable(input) == input.t \in {"obj", "num"}

Falsy(path) == path = None \/ path = Some(<<>>)

readFileTool(f, input) ==
    IF input.path = None THEN Out(<<T("Error reading file: "), T("ERR_INVALID_ARG_TYPE")>>, f)
    ELSE LET r == ReadFile(f, input.path[1])
         IN  IF r.ok THEN Out(<<TS("text", r.content)>>, f)
             ELSE Out(<<T("Error reading file: "), T(r.code)>>, f)

(* The entries of a directory, in each order readdir may give them. *)
Orders(S) == {o \in [1..Cardinality(S) -> S] : \A i, j \in 1..Cardinality(S) : i # j => o[i] # o[j]}
Entry(f, q) == TS(IF f[q].kind = "dir" THEN "dir/" ELSE "file", <<q[Len(q)]>>)
listFilesTool(f, input) ==
    LET p == IF input.path = None THEN <<>> ELSE input.path[1]
        r == IF input.path = None THEN "dir" ELSE Lookup(f, p)
    IN  IF r = "dir"
        THEN {Out(<<T("[")>> \o [i \in 1..Len(o) |-> Entry(f, o[i])] \o <<T("]")>>, f) :
                  o \in Orders({q \in Children(p) : f[q].kind # "none"})}
        ELSE {Out(<<T("Error listing files: "), T(IF r = "file" THEN "ENOTDIR" ELSE r)>>, f)}

(* the try block of editFileTool.function and its catch *)
editFileTry(f, path, old_str, new_str) ==
    LET r == ReadFile(f, path)
    IN  IF r.ok
        THEN IF ~Includes(r.content, old_str)
             THEN Out(<<T("old_str not found in file.")>>, f)
             ELSE IF ~ValidPattern(old_str)
             THEN Out(<<T("Error editing file: "), T("Invalid regular expression")>>, f)
             ELSE LET w == WriteFile(f, path, RegExpReplace(r.content, old_str, new_str, 0, 0))
                  IN  IF w.ok THEN Out(<<T("File edited successfully.")>>, w.fs)
                      ELSE Out(<<T("Error editing file: "), T(w.code)>>, f)
        ELSE IF r.code = "ENOENT" /\ old_str = <<>>
        THEN LET m == MkdirRecursive(f, Dirname(path))
                 w == WriteFile(m.fs, path, new_str)
             IN  IF ~m.ok THEN Out(<<T("Failed to create file: "), T(m.code)>>, f)
                 ELSE IF ~w.ok THEN Out(<<T("Failed to create file: "), T(w.code)>>, m.fs)
                 ELSE Out(<<T("Created new file at "), TS("path", path)>>, w.fs)
        ELSE Out(<<T("Error editing file: "), T(r.code)>>, f)

editFileTool_NoIdenticalCheck(f, input) ==
    IF Falsy(input.path)
    THEN Out(<<T("Invalid input parameters.")>>, f)
    ELSE editFileTry(f, input.path[1], input.old_str, input.new_str)

editFileTool(f, input) ==
    IF Falsy(input.path) \/ input.old_str = input.new_str
    THEN Out(<<T("Invalid input parameters.")>>, f)
    ELSE editFileTry(f, input.path[1], input.old_str, input.new_str)

deleteFileTool(f, input) ==
    IF input.path = None THEN Out(<<T("Error deleting file: "), T("ERR_INVALID_ARG_TYPE")>>, f)
    ELSE LET r == Rm(f, input.path[1])
         IN  IF r.ok THEN Out(<<T("Successfully deleted: "), TS("path", input.path[1])>>, r.fs)
             ELSE Out(<<T("Error deleting file: "), T(r.code)>>, f)

tools == <<"read_file", "list_files", "edit_file", "delete_file">>

(* a lookup that falls back on the first tool *)
FindTool_Fallback(name) ==
    IF name # None /\ \E i \in 1..Len(tools) : tools[i] = name[1]
    THEN CHOOSE i \in 1..Len(tools) : tools[i] = name[1]
    ELSE 1

(* tools.find((t) => t.name === call.name): the index of the first tool of *)
(* that name, 0 when there is none                                         *)
FindTool(name) ==
    IF name # None /\ \E i \in 1..Len(tools) : tools[i] = name[1]
    THEN CHOOSE i \in 1..Len(tools) : tools[i] = name[1] /\ \A j \in 1..(i - 1) : tools[j] # name[1]
    ELSE 0

(* tool.function(call.input): the outcomes the action can have *)
RunTool(i, f, input) ==
    IF tools[i] = "read_file" THEN {readFileTool(f, input)}
    ELSE IF tools[i] = "list_files" THEN listFilesTool(f, input)
    ELSE IF tools[i] = "edit_file" THEN {editFileTool(f, input)}
    ELSE {deleteFileTool(f, input)}

(* ---------------------------- the parser ------------------------------ *)
(* JSON.parse of the text between the delimiters: white space around the   *)
(* value is skipped; anything but exactly one JSON value throws.           *)
JSONParse(inner) ==
    LET body == SelectSeq(inner, LAMBDA t : t.k # "ws")
    IN  IF Len(body) = 1 /\ body[1].k = "json"
        THEN [ok |-> TRUE, value |-> body[1].j]
        ELSE [ok |-> FALSE, value |-> JNull]

(* text.match(/<tool_call>([\s\S]*?)<\/tool_call>/): the leftmost opening  *)
(* delimiter that a closing one follows, up to the first closing one.      *)
parseToolCall(text) ==
    LET opens == {i \in 1..Len(text) : text[i] = OpenTag /\ \E j \in (i + 1)..Len(text) : text[j] = CloseTag}
    IN  IF opens = {} THEN JNull
        ELSE LET i == CHOOSE o \in opens : \A x \in opens : o <= x
                 closes == {j \in (i + 1)..Len(text) : text[j] = CloseTag}
                 j == CHOOSE k \in closes : \A x \in closes : k <= x
                 parsed == JSONParse(SubSeq(text, i + 1, j - 1))
             IN  IF parsed.ok THEN parsed.value ELSE JNull

(* if (call): null, false, 0 are falsy *)
Truthy(v) == v.t \in {"num", "obj"}

(* --------------------------- the transcript --------------------------- *)
Msg(role, content) == [role |-> role, content |-> content]
SystemMessage == Msg("system", <<T("You are an AI assistant with access to three tools")>>)
UserMessage(userInput) == Msg("user", userInput)
AssistantMessage(reply) == Msg("assistant", reply)
ToolResultMessage_AsAssistant(res) == Msg("assistant", <<T("Tool result:\n")>> \o res)
ToolResultMessage(res) == Msg("user", <<T("Tool result:\n")>> \o res)
UnknownTool(name) == <<T("Unknown tool: "), TS("name", IF name = None THEN <<"undefined">> ELSE name)>>

(* the last message overwritten instead of a new one pushed *)
Push_Overwrite(conv, m) == [conv EXCEPT ![Len(conv)] = m]

(* conversation.push(message) *)
Push(conv, m) == Append(conv, m)

(* frames.length *)
NumFrames == 10

VARIABLES
    conversation,  \* the transcript sent with every completion request
    pc,            \* where runAgent stands
    call,          \* the value parseToolCall gave for the last reply
    result,        \* the text of the last tool result
    fs,            \* the files and directories the tools act on
    interval,      \* whether a spinner's setInterval timer is live
    frame,         \* the live spinner's frame index i
    rlOpen,        \* whether the readline interface is open
    err            \* the error the top-level catch received

vars == <<conversation, pc, call, result, fs, interval, frame, rlOpen, err>>

(* ------------------------------ inputs -------------------------------- *)
MkFS(nd, nf, ng) ==
    [q \in Paths |-> IF q = <<"d">> THEN nd ELSE IF q = <<"d", "f">> THEN nf ELSE ng]

Call(name, input) == JValue("obj", name, input)
PathInput(path) == InputVal("obj", path, <<>>, <<>>)
EditInput(path, old, new) == InputVal("obj", Some(path), old, new)

Say == T("txt")
CallReply(c) == <<Say, OpenTag, T("ws"), TJ(c), T("ws"), CloseTag>>

UserInputs == {<<Say>>}

LoopFSs == {MkFS(NoNode, NoNode, NoNode), MkFS(DirNode, FileNode(<<"a", "$">>), FileNode(<<"a">>))}

LoopCalls ==
    {Call(Some("read_file"), PathInput(Some(<<"g">>))),
     Call(Some("read_file"), NoInput),
     Call(Some("list_files"), PathInput(None)),
     Call(Some("list_files"), InputVal("null", None, <<>>, <<>>)),
     Call(Some("edit_file"), EditInput(<<"g">>, <<>>, <<"a">>)),
     Call(Some("edit_file"), EditInput(<<"d", "f">>, <<"$">>, <<"a">>)),
     Call(Some("edit_file"), EditInput(<<"g">>, <<"(">>, <<"a">>)),
     Call(Some("edit_file"), InputVal("num", None, <<>>, <<>>)),
     Call(Some("delete_file"), PathInput(Some(<<"d">>))),
     Call(Some("delete_file"), PathInput(None)),
     Call(Some("write_file"), PathInput(Some(<<"g">>))),
     Call(None, PathInput(Some(<<"g">>))),
     JValue("num", None, NoInput)}

Replies ==
    {CallReply(c) : c \in LoopCalls}
    \cup {<<>>, <<Say>>,
          <<OpenTag, Say, CloseTag>>,
          <<OpenTag, CloseTag>>,
          <<OpenTag, TJ(Call(Some("delete_file"), PathInput(Some(<<"d">>))))>>,
          <<OpenTag, OpenTag, TJ(Call(Some("delete_file"), PathInput(Some(<<"d">>)))), CloseTag>>,
          <<CloseTag, OpenTag, TJ(Call(Some("read_file"), PathInput(Some(<<"d", "f">>)))), CloseTag>>,
          <<OpenTag, TJ(JNull), CloseTag>>,
          <<OpenTag, TJ(JValue("zero", None, NoInput)), CloseTag>>,
          <<OpenTag, TJ(Call(Some("list_files"), PathInput(Some(<<"d">>)))), CloseTag,
            OpenTag, TJ(Call(Some("delete_file"), PathInput(Some(<<"g">>)))), CloseTag>>}

(* ------------------------------ the loop ------------------------------ *)
Init ==
    /\ conversation = <<SystemMessage>>
    /\ pc = "AwaitingUserInput"
    /\ call = JNull
    /\ result = <<>>
    /\ fs \in LoopFSs
    /\ interval = FALSE
    /\ frame = 0
    /\ rlOpen = TRUE
    /\ err = ""

(* askUser resolves; the input is pushed and the first request is sent *)
UserInput ==
    /\ pc = "AwaitingUserInput"
    /\ Len(conversation) < MaxMsgs
    /\ \E userInput \in UserInputs : conversation' = Push(conversation, UserMessage(userInput))
    /\ pc' = "AwaitingModelReply"
    /\ interval' = TRUE
    /\ frame' = 0
    /\ UNCHANGED <<call, result, fs, rlOpen, err>>

(* the setInterval callback of createSpinner *)
SpinnerTick ==
    /\ interval
    /\ frame' = (frame + 1) % NumFrames
    /\ UNCHANGED <<conversation, pc, call, result, fs, interval, rlOpen, err>>

(* the completion resolves with a reply in which a tool call is found *)
ReplyWithToolCall ==
    /\ pc = "AwaitingModelReply"
    /\ Len(conversation) < MaxMsgs
    /\ \E reply \in Replies :
          /\ Truthy(parseToolCall(reply))
          /\ call' = parseToolCall(reply)
          /\ conversation' = Push(conversation, AssistantMessage(reply))
    /\ pc' = "ModelRepliedWithToolCall"
    /\ interval' = FALSE
    /\ frame' = 0
    /\ UNCHANGED <<result, fs, rlOpen, err>>

(* the plain reply pushed, but the inner loop not left *)
ReplyPlain_NotDone ==
    /\ pc = "AwaitingModelReply"
    /\ Len(conversation) < MaxMsgs
    /\ \E reply \in Replies :
          /\ ~Truthy(parseToolCall(reply))
          /\ call' = parseToolCall(reply)
          /\ conversation' = Push(conversation, AssistantMessage(reply))
    /\ pc' = "AwaitingModelReply"
    /\ interval' = TRUE
    /\ frame' = 0
    /\ UNCHANGED <<result, fs, rlOpen, err>>

(* the completion resolves with a reply in which no tool call is found *)
ReplyPlain ==
    /\ pc = "AwaitingModelReply"
    /\ Len(conversation) < MaxMsgs
    /\ \E reply \in Replies :
          /\ ~Truthy(parseToolCall(reply))
          /\ call' = parseToolCall(reply)
          /\ conversation' = Push(conversation, AssistantMessage(reply))
    /\ pc' = "AwaitingUserInput"
    /\ interval' = FALSE
    /\ frame' = 0
    /\ UNCHANGED <<result, fs, rlOpen, err>>

(* the tool is looked up and run, its result pushed, the next request sent; *)
(* a tool function that throws rejects runAgent, and the top-level catch    *)
(* prints the error and closes the readline interface                       *)
ExecuteTool ==
    /\ pc = "ModelRepliedWithToolCall"
    /\ Len(conversation) < MaxMsgs
    /\ LET i == FindTool(call.name)
       IN  IF i # 0 /\ ~Destructurable(call.input)
           THEN /\ err' = "TypeError"
                /\ pc' = "Fatal"
                /\ rlOpen' = FALSE
                /\ UNCHANGED <<conversation, call, result, fs, interval, frame>>
           ELSE /\ \E out \in (IF i = 0 THEN {Out(UnknownTool(call.name), fs)}
                                        ELSE RunTool(i, fs, call.input)) :
                      /\ result' = out.result
                      /\ fs' = out.fs
                      /\ conversation' = Push(conversation, ToolResultMessage(out.result))
                /\ pc' = "AwaitingModelReply"
                /\ interval' = TRUE
                /\ frame' = 0
                /\ UNCHANGED <<call, rlOpen, err>>

(* the completion request rejects: spinner.stop() is skipped, the error    *)
(* leaves runAgent and reaches the top-level catch                         *)
EndpointFailure ==
    /\ pc = "AwaitingModelReply"
    /\ err' = "endpoint"
    /\ pc' = "Fatal"
    /\ rlOpen' = FALSE
    /\ UNCHANGED <<conversation, call, result, fs, interval, frame>>

(* the process ends once nothing keeps the event loop alive *)
Exit ==
    /\ pc = "Fatal"
    /\ ~interval
    /\ ~rlOpen
    /\ pc' = "Exited"
    /\ UNCHANGED <<conversation, call, result, fs, interval, frame, rlOpen, err>>

Next ==
    \/ UserInput
    \/ SpinnerTick
    \/ ReplyWithToolCall
    \/ ReplyPlain
    \/ ExecuteTool
    \/ EndpointFailure
    \/ Exit

Spec == Init /\ [][Next]_vars

(* --------------------- the edit tool on its inputs -------------------- *)
EditFSs ==
    {MkFS(nd, nf, ng) :
        nd \in {NoNode, DirNode, FileNode(<<"a">>)},
        nf \in {NoNode, DirNode} \cup {FileNode(c) : c \in Str(MaxContent)},
        ng \in {NoNode, FileNode(<<"a">>)}}

EditCalls ==
    {Call(Some("edit_file"), EditInput(p, old, new)) :
        p \in Paths \cup {<<>>}, old \in Str(MaxOld), new \in Str(MaxNew)}

InitEdit ==
    /\ fs \in {f \in EditFSs : WellFormed(f)}
    /\ call \in EditCalls
    /\ conversation = <<SystemMessage, UserMessage(<<Say>>), AssistantMessage(CallReply(call))>>
    /\ pc = "ModelRepliedWithToolCall"
    /\ result = <<>>
    /\ interval = FALSE
    /\ frame = 0
    /\ rlOpen = TRUE
    /\ err = ""

SpecEdit == InitEdit /\ [][ExecuteTool]_vars

(* ============================ the claims ============================== *)
Last(q) == q[Len(q)]
IsPrefix(a, b) == Len(a) <= Len(b) /\ SubSeq(b, 1, Len(a)) = a
Registered == {"read_file", "list_files", "edit_file", "delete_file"}
IsToolCallReply(m) == m.role = "assistant" /\ Truthy(parseToolCall(m.content))
IsToolResult(m) == m.role = "user" /\ Len(m.content) >= 1 /\ m.content[1] = T("Tool result:\n")
Running == pc = "ModelRepliedWithToolCall"
EditRunning == Running /\ call.name = Some("edit_file") /\ call.input.t = "obj" /\ call.input.path # None
EditPath == call.input.path[1]

(* C1: running a registered tool never raises: whatever the call's input,  *)
(* the step that runs the tool pushes "Tool result:\n" and the tool's text *)
(* as a user message and sends the next completion request; the loop is    *)
(* not left and no error reaches the top level.                            *)
C1_RegisteredToolNeverRaises ==
    [][(Running /\ call.name # None /\ call.name[1] \in Registered)
         => /\ pc' = "AwaitingModelReply"
            /\ err' = ""
            /\ conversation' = Append(conversation, Msg("user", <<T("Tool result:\n")>> \o result'))]_vars

(* C2: every reply in which a tool call is found is pushed as an assistant *)
(* message and, once the tool has run, is followed by the user message     *)
(* "Tool result:\n" + result; after that message the next completion is    *)
(* requested without user input being read.                                *)
C2_ToolCallAppendsReplyThenResult ==
    /\ \A k \in 1..Len(conversation) :
          IsToolCallReply(conversation[k]) =>
             IF k = Len(conversation) THEN Running ELSE IsToolResult(conversation[k + 1])
    /\ IsToolResult(Last(conversation)) =>
          /\ Last(conversation).content = <<T("Tool result:\n")>> \o result
          /\ IsToolCallReply(conversation[Len(conversation) - 1])
          /\ pc = "AwaitingModelReply" \/ (pc = "Fatal" /\ err = "endpoint")

(* C3: a reply for which the parser reports no call (no delimited block,   *)
(* or a block that is not valid JSON) is pushed as one assistant message,  *)
(* no tool runs, and the loop awaits user input; user input is awaited     *)
(* only at startup or right after such a reply.                            *)
AwaitsUserOnlyAfterPlainReply ==
    pc = "AwaitingUserInput" =>
        \/ conversation = <<SystemMessage>>
        \/ Last(conversation).role = "assistant" /\ ~Truthy(parseToolCall(Last(conversation).content))
C3_PlainReplyReturnsToUser ==
    [][/\ (pc = "AwaitingModelReply" /\ Len(conversation') > Len(conversation)
             /\ ~Truthy(parseToolCall(Last(conversation').content)))
          => /\ conversation' = Append(conversation, Msg("assistant", Last(conversation').content))
             /\ fs' = fs
             /\ result' = result
             /\ pc' = "AwaitingUserInput"
       /\ AwaitsUserOnlyAfterPlainReply
       /\ AwaitsUserOnlyAfterPlainReply']_vars
C3_Witness ==
    /\ pc = "AwaitingUserInput"
    /\ Len(conversation) = 5
    /\ Last(conversation) = Msg("assistant", <<OpenTag, Say, CloseTag>>)
    /\ IsToolResult(conversation[4])

(* C4: the transcript is append-only: every step leaves the transcript it  *)
(* found as a prefix of the new one, and the system message stays first.   *)
C4_TranscriptAppendOnly ==
    [][/\ IsPrefix(conversation, conversation')
       /\ conversation'[1] = SystemMessage
       /\ conversation'[1].role = "system"]_vars
C4_Witness ==
    /\ Len(conversation) = 6
    /\ IsToolResult(conversation[4])
    /\ conversation[6].role = "user"

(* C5: a call that names no registered tool (or has no name field) runs no *)
(* tool and leaves the filesystem alone; the reply is in the transcript as *)
(* an assistant message, "Unknown tool: <name>" is pushed as the tool      *)
(* result, and the next completion is requested.                           *)
C5_UnknownToolIsReported ==
    [][(Running /\ (call.name = None \/ call.name[1] \notin Registered))
         => /\ fs' = fs
            /\ Last(conversation).role = "assistant"
            /\ parseToolCall(Last(conversation).content) = call
            /\ result' = <<T("Unknown tool: "), TS("name", IF call.name = None THEN <<"undefined">> ELSE call.name)>>
            /\ conversation' = Append(conversation, Msg("user", <<T("Tool result:\n")>> \o result'))
            /\ pc' = "AwaitingModelReply"
            /\ err' = ""]_vars
C5_Witness ==
    /\ pc = "AwaitingModelReply"
    /\ call.t = "obj" /\ call.name = None
    /\ result = <<T("Unknown tool: "), TS("name", <<"undefined">>)>>
    /\ IsToolResult(Last(conversation))

(* C6: a failed completion request ends the process: once the top-level    *)
(* catch has handled it, nothing (no open readline interface, no live      *)
(* timer) keeps the process running.                                       *)
C6_EndpointFailureTerminates ==
    (pc = "Fatal" /\ err = "endpoint") => (~rlOpen /\ ~interval)

(* C10: the transcript is the system message followed by messages whose    *)
(* roles alternate user, assistant, user, ...; when a completion is        *)
(* requested the last message is a user message.                           *)
C10_RolesAlternate ==
    /\ conversation[1].role = "system"
    /\ \A k \in 2..Len(conversation) :
          conversation[k].role = (IF k % 2 = 0 THEN "user" ELSE "assistant")
    /\ pc = "AwaitingModelReply" => Last(conversation).role = "user"
C10_Witness ==
    /\ pc = "AwaitingModelReply"
    /\ Len(conversation) = 6
    /\ IsToolResult(conversation[4])
    /\ IsToolResult(conversation[6])

(* ---------------------- the edit tool's contract ---------------------- *)
(* every occurrence of old in c replaced by new, left to right, without    *)
(* overlap, old and new taken literally                                    *)
RECURSIVE LiteralReplaceAll(_, _, _)
LiteralReplaceAll(c, old, new) ==
    IF Len(old) = 0
    THEN IF Len(c) = 0 THEN new ELSE new \o <<c[1]>> \o LiteralReplaceAll(SubSeq(c, 2, Len(c)), old, new)
    ELSE IF Len(c) < Len(old) THEN c
    ELSE IF SubSeq(c, 1, Len(old)) = old
         THEN new \o LiteralReplaceAll(SubSeq(c, Len(old) + 1, Len(c)), old, new)
    ELSE <<c[1]>> \o LiteralReplaceAll(SubSeq(c, 2, Len(c)), old, new)

(* nothing exists at the non-empty path p, and the directories leading to  *)
(* it exist or can be made (none of them is a regular file)                *)
NothingAt(p) ==
    /\ p # <<>>
    /\ fs[p].kind = "none"
    /\ \A a \in Ancestors(p) : fs[a].kind # "file"
IsFileAt(p) == p # <<>> /\ fs[p].kind = "file"
Created(p, new) ==
    /\ fs'[p] = FileNode(new)
    /\ \A a \in Ancestors(p) : fs'[a].kind = "dir"
    /\ result' = <<T("Created new file at "), TS("path", p)>>

(* C7 as stated: for every path at which nothing exists and every new,     *)
(* edit with old = "" creates the file, and its missing parent             *)
(* directories, with content new and reports success.                      *)
C7_CreatesForEveryNew ==
    [][(EditRunning /\ NothingAt(EditPath) /\ call.input.old_str = <<>>)
         => Created(EditPath, call.input.new_str)]_vars

(* C7 amended: for every path at which nothing exists and every non-empty  *)
(* new, edit with old = "" creates the file, and its missing parent        *)
(* directories, with content new and reports success.                      *)
C7_CreatesForEveryNonEmptyNew ==
    [][(/\ EditRunning /\ NothingAt(EditPath) /\ call.input.old_str = <<>>
        /\ call.input.new_str # <<>>)
         => Created(EditPath, call.input.new_str)]_vars
C7_Witness ==
    /\ call.name = Some("edit_file")
    /\ call.input.path = Some(<<"d", "f">>)
    /\ call.input.old_str = <<>>
    /\ call.input.new_str = <<"a", "$">>
    /\ result = <<T("Created new file at "), TS("path", <<"d", "f">>)>>
    /\ fs[<<"d">>] = DirNode
    /\ fs[<<"d", "f">>] = FileNode(<<"a", "$">>)

(* C8: for every existing file with content c and every old # new with old *)
(* a literal substring of c, edit leaves the file with every literal       *)
(* occurrence of old replaced by new, every other file as it was, and      *)
(* reports success.                                                        *)
C8_ReplacesEveryLiteralOccurrence ==
    [][(/\ EditRunning /\ IsFileAt(EditPath)
        /\ call.input.old_str # call.input.new_str
        /\ Includes(fs[EditPath].content, call.input.old_str))
         => /\ fs' = [fs EXCEPT ![EditPath] =
                         FileNode(LiteralReplaceAll(fs[EditPath].content, call.input.old_str, call.input.new_str))]
            /\ result' = <<T("File edited successfully.")>>]_vars

(* C9: edit with old = new is rejected as invalid input whatever the file  *)
(* is; edit with old # new on an existing file that does not contain old   *)
(* reports "not found"; in both cases every file is as it was.             *)
C9_RejectionLeavesFilesUntouched ==
    [][(Running /\ call.name = Some("edit_file") /\ call.input.t = "obj")
         => /\ (call.input.old_str = call.input.new_str)
                 => (result' = <<T("Invalid input parameters.")>> /\ fs' = fs)
            /\ (/\ call.input.old_str # call.input.new_str
                /\ call.input.path # None
                /\ IsFileAt(EditPath)
                /\ ~Includes(fs[EditPath].content, call.input.old_str))
                 => (result' = <<T("old_str not found in file.")>> /\ fs' = fs)]_vars
C9_Witness ==
    /\ call.name = Some("edit_file")
    /\ call.input.path = Some(<<"d", "f">>)
    /\ call.input.old_str = <<"$">>
    /\ result = <<T("old_str not found in file.")>>
    /\ fs[<<"d", "f">>] = FileNode(<<"a", "(">>)
    /\ fs[<<"g">>] = FileNode(<<"a">>)

====
